---- MODULE Spec2Model ----
(***************************************************************************)
(* Document numbering engine of the tenant service                         *)
(* (tenants/models.py TenantDocumentNumbering and the numbering views of   *)
(* tenants/views.py).                                                      *)
(*                                                                         *)
(* Strings are sequences of one-character strings, so that formatting,     *)
(* zero padding and template substitution are computed character by        *)
(* character as Python computes them.  The date_format column is stored    *)
(* by the program but read by no numbering code, so rows do not carry it.  *)
(***************************************************************************)
EXTENDS Integers, Sequences, FiniteSets, TLC

(***************************************************************************)
(* Bounds of the model                                                     *)
(***************************************************************************)
\* total number of requests started in one behaviour
MaxCalls == 2

\* the request workers
Procs == 1..2
Tenants == {"t1", "t2"}
Date(y, m, d) == [year |-> y, month |-> m, day |-> d]
StartDate == Date(2024, 7, 23)
\* the dates the clock shows: the start, a later month of the same year and
\* the same month of the next year
Dates == {StartDate, Date(2024, 12, 5), Date(2025, 7, 23)}

\* d1 is strictly before d2
Earlier(d1, d2) ==
    \/ d1.year < d2.year
    \/ d1.year = d2.year /\ d1.month < d2.month
    \/ d1.year = d2.year /\ d1.month = d2.month /\ d1.day < d2.day

(***************************************************************************)
(* Text                                                                    *)
(***************************************************************************)
DigitChars == <<"0", "1", "2", "3", "4", "5", "6", "7", "8", "9">>

IsDigit(c) == \E i \in 1..Len(DigitChars) : DigitChars[i] = c

\* str(n) of a natural number
RECURSIVE NatStr(_)
NatStr(n) ==
    IF n < 10 THEN <<DigitChars[n + 1]>>
    ELSE NatStr(n \div 10) \o <<DigitChars[(n % 10) + 1]>>

\* str(n) of an integer
Str(n) == IF n < 0 THEN <<"-">> \o NatStr(0 - n) ELSE NatStr(n)

RECURSIVE Zeros(_)
Zeros(k) == IF k <= 0 THEN <<>> ELSE <<"0">> \o Zeros(k - 1)

Ok(v) == [ok |-> TRUE, val |-> v, err |-> "none"]
Raise(e) == [ok |-> FALSE, val |-> <<>>, err |-> e]

\* f"{n:0{width}d}": sign-aware zero padding to a total of width characters;
\* a negative width makes the format specifier invalid (ValueError)
ZeroPad(n, width) ==
    IF width < 0 THEN Raise("ValueError")
    ELSE LET sign == IF n < 0 THEN <<"-">> ELSE <<>>
             digits == NatStr(IF n < 0 THEN 0 - n ELSE n)
         IN  Ok(sign \o Zeros(width - Len(sign) - Len(digits)) \o digits)

\* f"{v:02d}" for the month and the day
TwoDigits(v) == ZeroPad(v, 2).val

\* sep.join(parts)
RECURSIVE Join(_, _)
Join(parts, sep) ==
    IF Len(parts) = 0 THEN <<>>
    ELSE IF Len(parts) = 1 THEN parts[1]
    ELSE parts[1] \o sep \o Join(Tail(parts), sep)

\* the names str.format(**format_vars) can resolve
N_prefix == <<"p", "r", "e", "f", "i", "x">>
N_year == <<"y", "e", "a", "r">>
N_month == <<"m", "o", "n", "t", "h">>
N_day == <<"d", "a", "y">>
N_number == <<"n", "u", "m", "b", "e", "r">>
N_suffix == <<"s", "u", "f", "f", "i", "x">>
FormatVarNames == {N_prefix, N_year, N_month, N_day, N_number, N_suffix}

\* the least index >= i of character c in t, or 0
RECURSIVE IndexFrom(_, _, _)
IndexFrom(t, c, i) ==
    IF i > Len(t) THEN 0
    ELSE IF t[i] = c THEN i
    ELSE IndexFrom(t, c, i + 1)

\* template.format(**vars), read left to right as Python's formatter reads
\* it: "{{" and "}}" are literal braces, "{name}" is replaced by vars[name],
\* a brace that opens or closes no field is a ValueError, a field named by
\* nothing or by digits is positional (IndexError: there are no positional
\* arguments), any other unknown name is a KeyError.  Templates of the model
\* use no conversion, format specifier, attribute or index syntax.
RECURSIVE StrFormat(_, _, _, _)
StrFormat(t, vars, i, out) ==
    IF i > Len(t) THEN Ok(out)
    ELSE IF t[i] = "{" THEN
        IF i + 1 <= Len(t) /\ t[i + 1] = "{"
        THEN StrFormat(t, vars, i + 2, out \o <<"{">>)
        ELSE LET j == IndexFrom(t, "}", i + 1)
                 name == SubSeq(t, i + 1, j - 1)
             IN  IF j = 0 THEN Raise("ValueError")
                 ELSE IF \A x \in 1..Len(name) : IsDigit(name[x])
                 THEN Raise("IndexError")
                 ELSE IF name \in DOMAIN vars
                 THEN StrFormat(t, vars, j + 1, out \o vars[name])
                 ELSE Raise("KeyError")
    ELSE IF t[i] = "}" THEN
        IF i + 1 <= Len(t) /\ t[i + 1] = "}"
        THEN StrFormat(t, vars, i + 2, out \o <<"}">>)
        ELSE Raise("ValueError")
    ELSE StrFormat(t, vars, i + 1, out \o <<t[i]>>)

(***************************************************************************)
(* TenantDocumentNumbering rows and the values requests carry              *)
(***************************************************************************)
DocTypes == {"invoice", "quote", "contract"}
Keys == Tenants \X DocTypes

\* the absence of a row (DoesNotExist); every stored row has an id >= 1
NoRow == [id |-> 0]
Exists(r) == r.id # 0

T_FAC == <<"F", "A", "C">>
T_DEV == <<"D", "E", "V">>
T_AV == <<"A", "V">>
T_DOC == <<"D", "O", "C">>
T_dash == <<"-">>
\* "{prefix}/{year}{month}/{number}"
T_wellformed ==
    <<"{">> \o N_prefix \o <<"}", "/", "{">> \o N_year \o <<"}", "{">>
    \o N_month \o <<"}", "/", "{">> \o N_number \o <<"}">>
\* "{bogus}": an unknown placeholder
\* "{number}{suffix}.{day}.{month}.{year}.{prefix}"
T_every ==
    <<"{">> \o N_number \o <<"}", "{">> \o N_suffix \o <<"}", ".", "{">> \o N_day
    \o <<"}", ".", "{">> \o N_month \o <<"}", ".", "{">> \o N_year
    \o <<"}", ".", "{">> \o N_prefix \o <<"}">>

T_bogus == <<"{", "b", "o", "g", "u", "s", "}">>
\* "{prefix}-{}": a placeholder without a name
T_positional == <<"{">> \o N_prefix \o <<"}", "-", "{", "}">>

\* the model columns of a numbering configuration, without id and owner
ConfigFields(prefix, suffix, next_number, padding, iy, im, idy, sep, custom, ry, rm) ==
    [prefix |-> prefix, suffix |-> suffix, next_number |-> next_number,
     padding |-> padding, include_year |-> iy, include_month |-> im,
     include_day |-> idy, separator |-> sep, custom_format |-> custom,
     reset_yearly |-> ry, reset_monthly |-> rm]

\* configurations a tenant may have stored through the configuration
\* endpoints: the standard yearly invoice scheme, a monthly scheme with a
\* suffix and every date part, a well-formed template on a counter that
\* never resets, and two malformed templates
SampleConfigs ==
    { ConfigFields(T_FAC, <<>>, 42, 3, TRUE, FALSE, FALSE, T_dash, <<>>, TRUE, FALSE),
      ConfigFields(T_AV, <<"X">>, 9, 3, TRUE, TRUE, TRUE, <<"/">>, <<>>, FALSE, TRUE),
      ConfigFields(T_DEV, <<>>, 12, 4, TRUE, FALSE, FALSE, T_dash, T_wellformed, FALSE, FALSE),
      ConfigFields(T_FAC, <<>>, 7, 3, TRUE, FALSE, FALSE, T_dash, T_bogus, TRUE, FALSE),
      ConfigFields(T_FAC, <<>>, 7, 3, TRUE, FALSE, FALSE, T_dash, T_positional, TRUE, FALSE) }

\* bodies of preview requests: a configuration and the document type
PreviewBodies ==
    {[f \in DOMAIN cfg \cup {"document_type"} |->
        IF f = "document_type" THEN "quote" ELSE cfg[f]] : cfg \in SampleConfigs}

\* configurations that preview requests try out: the standard scheme with
\* and without prefix and suffix, with every choice of date parts and two
\* separators; counters narrower and wider than the padding; two templates
\* on configurations whose standard scheme differs
FormatConfigs ==
    {ConfigFields(prefix, suffix, 7, 3, iy, im, idy, sep, <<>>, FALSE, FALSE) :
        prefix \in {<<>>, T_FAC}, suffix \in {<<>>, <<"X">>},
        iy \in BOOLEAN, im \in BOOLEAN, idy \in BOOLEAN,
        sep \in {T_dash, <<"/">>}}
    \cup
    {ConfigFields(T_FAC, <<>>, np[1], np[2], TRUE, FALSE, FALSE, T_dash, <<>>,
                  FALSE, FALSE) :
        np \in {<<1, 3>>, <<12, 4>>, <<1234, 3>>, <<5, 1>>}}
    \cup
    {ConfigFields(prefix, suffix, np[1], np[2], iy, FALSE, iy, sep, custom,
                  FALSE, FALSE) :
        prefix \in {<<>>, T_DEV}, suffix \in {<<>>, <<"X">>},
        np \in {<<12, 4>>, <<1234, 3>>}, iy \in BOOLEAN,
        sep \in {T_dash, <<"/">>}, custom \in {T_wellformed, T_every}}

FormatBodies ==
    {[f \in DOMAIN cfg \cup {"document_type"} |->
        IF f = "document_type" THEN "invoice" ELSE cfg[f]] : cfg \in FormatConfigs}

\* a stored row: the configuration with its primary key, owner and auto_now stamp
MakeRow(id, tenant, document_type, cfg, at) ==
    [id |-> id, tenant |-> tenant, document_type |-> document_type,
     prefix |-> cfg.prefix, suffix |-> cfg.suffix,
     next_number |-> cfg.next_number, padding |-> cfg.padding,
     include_year |-> cfg.include_year, include_month |-> cfg.include_month,
     include_day |-> cfg.include_day, separator |-> cfg.separator,
     custom_format |-> cfg.custom_format, reset_yearly |-> cfg.reset_yearly,
     reset_monthly |-> cfg.reset_monthly, updated_at |-> at]

(***************************************************************************)
(* Methods of TenantDocumentNumbering                                      *)
(***************************************************************************)
\* whether the stored reference point lies in an earlier period than now
ResetDue(self, now) ==
    \/ self.reset_yearly /\ self.updated_at.year # now.year
    \/ /\ self.reset_monthly
       /\ (self.updated_at.year # now.year \/ self.updated_at.month # now.month)

\* mutant: the yearly branch of the reset check is lost
check_and_reset_counter_monthly_only(self, now) ==
    IF /\ self.reset_monthly
       /\ (self.updated_at.year # now.year \/ self.updated_at.month # now.month)
    THEN [self EXCEPT !.next_number = 1] ELSE self

\* mutant: the monthly branch compares the month number only
check_and_reset_counter_month_number_only(self, now) ==
    IF \/ self.reset_yearly /\ self.updated_at.year # now.year
       \/ self.reset_monthly /\ self.updated_at.month # now.month
    THEN [self EXCEPT !.next_number = 1] ELSE self

check_and_reset_counter(self, now) ==
    IF ResetDue(self, now) THEN [self EXCEPT !.next_number = 1] ELSE self

\* mutant: the suffix is placed before the number
generate_standard_format_suffix_first(self, now) ==
    LET prefix_part == IF self.prefix # <<>> THEN <<self.prefix>> ELSE <<>>
        date_parts ==
            (IF self.include_year THEN <<Str(now.year)>> ELSE <<>>)
            \o (IF self.include_month THEN <<TwoDigits(now.month)>> ELSE <<>>)
            \o (IF self.include_day THEN <<TwoDigits(now.day)>> ELSE <<>>)
        date_part ==
            IF date_parts # <<>> THEN <<Join(date_parts, self.separator)>> ELSE <<>>
        number == ZeroPad(self.next_number, self.padding)
        suffix_part == IF self.suffix # <<>> THEN <<self.suffix>> ELSE <<>>
    IN  IF ~number.ok THEN number
        ELSE Ok(Join(prefix_part \o date_part \o suffix_part \o <<number.val>>,
                     self.separator))

generate_standard_format(self, now) ==
    LET prefix_part == IF self.prefix # <<>> THEN <<self.prefix>> ELSE <<>>
        date_parts ==
            (IF self.include_year THEN <<Str(now.year)>> ELSE <<>>)
            \o (IF self.include_month THEN <<TwoDigits(now.month)>> ELSE <<>>)
            \o (IF self.include_day THEN <<TwoDigits(now.day)>> ELSE <<>>)
        date_part ==
            IF date_parts # <<>> THEN <<Join(date_parts, self.separator)>> ELSE <<>>
        number == ZeroPad(self.next_number, self.padding)
        suffix_part == IF self.suffix # <<>> THEN <<self.suffix>> ELSE <<>>
    IN  IF ~number.ok THEN number
        ELSE Ok(Join(prefix_part \o date_part \o <<number.val>> \o suffix_part,
                     self.separator))

\* the exceptions the template rendering recovers from
CaughtFormatErrors == {"KeyError", "ValueError"}

\* mutant: the number is substituted without its zero padding
RenderTemplate_number_unpadded(self, now) ==
    LET format_vars ==
            [name \in FormatVarNames |->
                CASE name = N_prefix -> self.prefix
                  [] name = N_year -> Str(now.year)
                  [] name = N_month -> TwoDigits(now.month)
                  [] name = N_day -> TwoDigits(now.day)
                  [] name = N_number -> Str(self.next_number)
                  [] OTHER -> self.suffix]
    IN  StrFormat(self.custom_format, format_vars, 1, <<>>)

\* self.custom_format.format(**format_vars)
RenderTemplate(self, now) ==
    LET format_vars ==
            [name \in FormatVarNames |->
                CASE name = N_prefix -> self.prefix
                  [] name = N_year -> Str(now.year)
                  [] name = N_month -> TwoDigits(now.month)
                  [] name = N_day -> TwoDigits(now.day)
                  [] name = N_number -> ZeroPad(self.next_number, self.padding).val
                  [] OTHER -> self.suffix]
    IN  StrFormat(self.custom_format, format_vars, 1, <<>>)

generate_custom_format(self, now) ==
    LET number == ZeroPad(self.next_number, self.padding)
        rendered == RenderTemplate(self, now)
    IN  IF ~number.ok THEN number
        ELSE IF rendered.ok THEN rendered
        ELSE IF rendered.err \in CaughtFormatErrors
        THEN generate_standard_format(self, now)
        ELSE rendered

\* the choice between the two schemes in get_next_number and preview_next_number
FormatNumber(self, now) ==
    IF self.custom_format # <<>>
    THEN generate_custom_format(self, now)
    ELSE generate_standard_format(self, now)

\* mutant: the preview consumes the number it shows and saves the instance
preview_next_number_consumes(self, now) ==
    [number |-> FormatNumber(self, now),
     self |-> [self EXCEPT !.next_number = self.next_number + 1],
     saves |-> TRUE]

\* preview_next_number: the rendered number; the instance is left as it was
\* and is not saved
preview_next_number(self, now) ==
    [number |-> FormatNumber(self, now), self |-> self, saves |-> FALSE]

\* mutant: the number is rendered after the increment
get_next_number_renders_after_increment(self, now) ==
    LET checked == check_and_reset_counter(self, now)
        bumped == [checked EXCEPT !.next_number = checked.next_number + 1]
        number == FormatNumber(bumped, now)
    IN  [ok |-> number.ok, err |-> number.err, number |-> number.val,
         raw |-> bumped.next_number,
         self |-> IF number.ok THEN bumped ELSE checked]

\* get_next_number up to its save: the instance after the reset check and the
\* increment, the rendered number and the raw number it was rendered from; an
\* exception of the rendering leaves the method before the increment
get_next_number(self, now) ==
    LET checked == check_and_reset_counter(self, now)
        number == FormatNumber(checked, now)
    IN  [ok |-> number.ok, err |-> number.err, number |-> number.val,
         raw |-> checked.next_number,
         self |-> IF number.ok
                  THEN [checked EXCEPT !.next_number = checked.next_number + 1]
                  ELSE checked]

\* mutant: the new number is returned instead of the old one
increment_counter_returns_new(self) ==
    [self |-> [self EXCEPT !.next_number = self.next_number + 1],
     old |-> self.next_number + 1]

\* increment_counter up to its save: the old number is returned
increment_counter(self) ==
    [self |-> [self EXCEPT !.next_number = self.next_number + 1],
     old |-> (self.next_number + 1) - 1]

\* mutant: the counter goes back to 1 whatever value was asked for
reset_counter_ignores_value(self, new_value) == [self EXCEPT !.next_number = 1]

reset_counter(self, new_value) == [self EXCEPT !.next_number = new_value]

(***************************************************************************)
(* The store                                                               *)
(***************************************************************************)
\* Model.save(): every column of the instance is written to the row with its
\* primary key and updated_at is stamped (auto_now); when no row has that
\* primary key the instance is inserted, which the unique (tenant,
\* document_type) constraint rejects if another row holds the pair
SaveAll(store, self, at) ==
    LET k == <<self.tenant, self.document_type>>
    IN  IF Exists(store[k]) /\ store[k].id # self.id
        THEN [ok |-> FALSE, store |-> store]
        ELSE [ok |-> TRUE,
              store |-> [store EXCEPT ![k] = [self EXCEPT !.updated_at = at]]]

\* a save that writes the counter to the rows of the type of every tenant
SaveCounter_every_tenant(store, self, at) ==
    [ok |-> TRUE,
     store |-> [k \in Keys |->
                  IF Exists(store[k]) /\ k[2] = self.document_type
                  THEN [store[k] EXCEPT !.next_number = self.next_number,
                                        !.updated_at = at]
                  ELSE store[k]]]

\* Model.save(update_fields=['next_number', 'updated_at']): only the two
\* columns are written; it fails when no row has the primary key
SaveCounter(store, self, at) ==
    LET k == <<self.tenant, self.document_type>>
    IN  IF ~Exists(store[k]) \/ store[k].id # self.id
        THEN [ok |-> FALSE, store |-> store]
        ELSE [ok |-> TRUE,
              store |-> [store EXCEPT ![k] = [store[k] EXCEPT
                            !.next_number = self.next_number,
                            !.updated_at = at]]]

\* the table after a method call that ends in the instance `self`, which the
\* method saved or did not save; an instance without primary key and owner
\* (the unsaved instance of the preview endpoint) cannot be stored
Persist(store, self, saves, at) ==
    IF saves /\ Exists(self) THEN SaveAll(store, self, at).store ELSE store

\* a lookup by primary key that does not look at the tenant
GetById_any_tenant(store, id, tenant) ==
    IF \E k \in Keys : store[k].id = id
    THEN store[CHOOSE k \in Keys : store[k].id = id]
    ELSE NoRow

\* objects.get(id=numbering_id, tenant_id=tenant_id)
GetById(store, id, tenant) ==
    IF \E k \in Keys : store[k].id = id /\ k[1] = tenant
    THEN store[CHOOSE k \in Keys : store[k].id = id /\ k[1] = tenant]
    ELSE NoRow

\* the defaults of the model columns with the prefix the GET view chooses
DefaultPrefix(document_type) ==
    CASE document_type = "quote" -> T_DEV
      [] document_type = "invoice" -> T_FAC
      [] document_type = "credit_note" -> T_AV
      [] OTHER -> T_DOC

DefaultConfig(document_type) ==
    ConfigFields(DefaultPrefix(document_type), <<>>, 1, 3, TRUE, FALSE, FALSE,
                 T_dash, <<>>, TRUE, FALSE)

(***************************************************************************)
(* Values of the new_value key of a reset request body (JSON)              *)
(***************************************************************************)
JsonInt(n) == [type |-> "int", val |-> n]
JsonBool(b) == [type |-> "bool", val |-> IF b THEN 1 ELSE 0]
JsonStr(n) == [type |-> "str", val |-> n]
JsonAbsent == [type |-> "absent", val |-> 0]

NewValues == {JsonInt(0), JsonInt(5), JsonBool(TRUE), JsonStr(5), JsonAbsent}

\* request.data.get('new_value', 1)
DataGetNewValue(v) == IF v.type = "absent" THEN JsonInt(1) ELSE v

\* isinstance(v, int): bool is a subclass of int
IsInstanceInt(v) == v.type \in {"int", "bool"}

\* not isinstance(new_value, int) or new_value < 1  (True < 1 is False)
NewValueRejected(v) == ~IsInstanceInt(v) \/ v.val < 1

(***************************************************************************)
(* TenantVatRate rows of a tenant, in the order of their primary keys      *)
(***************************************************************************)
VatCodes == {"20", "10", "0"}

VatRate(code, is_default) == [code |-> code, is_default |-> is_default]

\* the rates create_initial_vat_rates stores for a tenant: the normal rate
\* is the default
InitialVatRates == <<VatRate("20", TRUE), VatRate("10", FALSE)>>

InitialVatTables == {[t \in Tenants |-> IF t = "t1" THEN InitialVatRates ELSE <<>>]}

\* filter(tenant=tenant, is_default=True).update(is_default=False)
ClearDefaults(rates) ==
    [i \in 1..Len(rates) |-> [rates[i] EXCEPT !.is_default = FALSE]]

\* the table without the row at position i
RemoveAt(rates, i) ==
    [j \in 1..(Len(rates) - 1) |-> IF j < i THEN rates[j] ELSE rates[j + 1]]

HasCode(rates, code) == \E i \in 1..Len(rates) : rates[i].code = code

\* the creation loop of the list replacement of tenant_vat_rates: before a
\* default rate is created the rates created so far lose the flag; a rate
\* whose code is already stored raises IntegrityError and ends the loop
RECURSIVE CreateRates(_, _)
CreateRates(created, todo) ==
    IF todo = <<>> THEN [ok |-> TRUE, rates |-> created]
    ELSE LET rate_data == Head(todo)
             cleared == IF rate_data.is_default /\ created # <<>>
                        THEN ClearDefaults(created) ELSE created
         IN  IF HasCode(cleared, rate_data.code)
             THEN [ok |-> FALSE, rates |-> cleared]
             ELSE CreateRates(Append(cleared, rate_data), Tail(todo))

\* the creation loop of current_tenant_info: every rate is created with the
\* flag it carries
RECURSIVE CreateAll(_, _)
CreateAll(created, todo) ==
    IF todo = <<>> THEN [ok |-> TRUE, rates |-> created]
    ELSE IF HasCode(created, Head(todo).code)
    THEN [ok |-> FALSE, rates |-> created]
    ELSE CreateAll(Append(created, Head(todo)), Tail(todo))

\* QuerySet.first() of the default rates: the one with the least primary key
FirstDefault(rates) ==
    CHOOSE i \in 1..Len(rates) :
        rates[i].is_default /\ \A j \in 1..(i - 1) : ~rates[j].is_default

\* the pass of current_tenant_info after the creation: of several default
\* rates only the first stays, and without any the first rate becomes it
SingleDefault(rates) ==
    LET defaults == {i \in 1..Len(rates) : rates[i].is_default}
    IN  IF Cardinality(defaults) > 1
        THEN [i \in 1..Len(rates) |->
                [rates[i] EXCEPT !.is_default = (i = FirstDefault(rates))]]
        ELSE IF defaults = {} /\ rates # <<>>
        THEN [rates EXCEPT ![1].is_default = TRUE]
        ELSE rates

\* a new rate that takes the default without a look at the stored ones
PostRates_keeps_defaults(rates, code, is_default) ==
    IF HasCode(rates, code) THEN [status |-> 400, rates |-> rates]
    ELSE [status |-> 201, rates |-> Append(rates, VatRate(code, is_default))]

\* POST vat_rates/: a stored code is refused; a new default rate takes the
\* flag from the stored ones before it is created
PostRates(rates, code, is_default) ==
    IF HasCode(rates, code) THEN [status |-> 400, rates |-> rates]
    ELSE [status |-> 201,
          rates |-> Append(IF is_default THEN ClearDefaults(rates) ELSE rates,
                           VatRate(code, is_default))]

\* PUT/PATCH vat_rates/ with one rate, the row at position i: the flag is
\* only ever set, after the other rows have lost it; the save of a code that
\* another row holds raises IntegrityError after that update is committed
PutRates(rates, i, data) ==
    LET sets == /\ "is_default" \in DOMAIN data
                /\ data.is_default
                /\ ~rates[i].is_default
        cleared == IF sets THEN ClearDefaults(rates) ELSE rates
        code == IF "code" \in DOMAIN data THEN data.code ELSE rates[i].code
        clash == \E j \in 1..Len(rates) : j # i /\ rates[j].code = code
    IN  IF clash THEN [status |-> 500, rates |-> cleared]
        ELSE [status |-> 200,
              rates |-> [cleared EXCEPT
                           ![i] = VatRate(code, rates[i].is_default \/ sets)]]

\* DELETE vat_rates/?id=: when the default rate goes and others stay, the
\* first of the others becomes the default
DeleteRates(rates, i) ==
    LET other == IF i = 1 THEN 2 ELSE 1
        promoted == IF rates[i].is_default /\ Len(rates) > 1
                    THEN [rates EXCEPT ![other].is_default = TRUE]
                    ELSE rates
    IN  RemoveAt(promoted, i)

\* the bodies of the requests for one rate
VatBodies ==
    { [is_default |-> TRUE], [is_default |-> FALSE], [code |-> "10"],
      [code |-> "0", is_default |-> TRUE] }

\* the lists of rates the replacement requests carry
VatLists ==
    { <<>>,
      <<VatRate("20", TRUE)>>,
      <<VatRate("20", FALSE), VatRate("10", FALSE)>>,
      <<VatRate("20", TRUE), VatRate("10", TRUE)>>,
      <<VatRate("20", TRUE), VatRate("10", FALSE), VatRate("0", TRUE)>>,
      <<VatRate("10", TRUE), VatRate("10", TRUE)>> }

(***************************************************************************)
(* TenantInvitation rows, by (tenant, email)                               *)
(***************************************************************************)
Emails == {"ann@example.org", "bob@example.org"}

\* unique_together (tenant, email): the table holds at most one row per pair
NoInvitation == [stored |-> FALSE, is_accepted |-> FALSE, is_expired |-> FALSE]

\* a row as objects.create stores it
NewInvitation == [stored |-> TRUE, is_accepted |-> FALSE, is_expired |-> FALSE]

InitialInvitationTables == {[k \in Tenants \X Emails |-> NoInvitation]}

\* filter(tenant=tenant, email=value, is_accepted=False, is_expired=False).exists()
PendingExists(table, tenant, email) ==
    /\ table[<<tenant, email>>].stored
    /\ ~table[<<tenant, email>>].is_accepted
    /\ ~table[<<tenant, email>>].is_expired

\* validate_email: the address is refused while an invitation is pending
validate_email(table, tenant, email) == ~PendingExists(table, tenant, email)

(***************************************************************************)
(* State                                                                   *)
(*   now     the date the clock shows                                      *)
(*   db      the tenant_document_numbering table, by (tenant, type)        *)
(*   nextId  the next primary key the table assigns                        *)
(*   calls   the number of requests started                                *)
(*   pc      where each request worker stands in its handler               *)
(*   inst    the model instance the worker loaded                          *)
(*   ret     the last response each worker produced, with the row as it    *)
(*           was loaded, as it was stored right before the handler wrote   *)
(*           and as it was stored right after                              *)
(*   seed    per config, the value the counter was last set to (creation,  *)
(*           reset_counter, periodic reset)                                *)
(*   origin  per config, what set it last                                  *)
(*   issued  per config, the raw numbers handed out since then, in the     *)
(*           order the calls completed                                     *)
(*   req     what each worker keeps of the request it is handling          *)
(*   vat     the tenant_vat_rates table, per tenant by primary key         *)
(*   invitations  the tenant_invitations table, by (tenant, email)         *)
(*   reply   the last response of a VAT-rate or invitation request         *)
(***************************************************************************)
VARIABLES now, db, nextId, calls, pc, inst, ret, seed, origin, issued, req,
          vat, invitations, reply

vars == <<now, db, nextId, calls, pc, inst, ret, seed, origin, issued, req,
          vat, invitations, reply>>

\* the state of the document numbering and the state of the other tables
numbering == <<now, db, nextId, calls, pc, inst, ret, seed, origin, issued, req>>
admin == <<vat, invitations, reply>>

NoRequest == [tenant |-> ""]

NoResponse == [op |-> "none"]

KeyOf(self) == <<self.tenant, self.document_type>>

Init ==
    /\ now = StartDate
    /\ \E cfg \in SampleConfigs :
          db = [k \in Keys |->
                  IF k = <<"t1", "invoice">>
                  THEN MakeRow(1, "t1", "invoice", cfg, StartDate)
                  ELSE IF k = <<"t2", "invoice">>
                  THEN MakeRow(2, "t2", "invoice", DefaultConfig("invoice"), StartDate)
                  ELSE NoRow]
    /\ nextId = 3
    /\ calls = 0
    /\ pc = [p \in Procs |-> "idle"]
    /\ inst = [p \in Procs |-> NoRow]
    /\ ret = [p \in Procs |-> NoResponse]
    /\ seed = [k \in Keys |-> IF Exists(db[k]) THEN db[k].next_number ELSE 0]
    /\ origin = [k \in Keys |-> IF Exists(db[k]) THEN "create" ELSE "none"]
    /\ issued = [k \in Keys |-> <<>>]
    /\ req = [p \in Procs |-> NoRequest]
    /\ vat \in InitialVatTables
    /\ invitations \in InitialInvitationTables
    /\ reply = NoResponse

\* the clock moves on to a later date
Tick ==
    /\ \E d \in Dates : Earlier(now, d) /\ now' = d
    /\ UNCHANGED <<db, nextId, calls, pc, inst, ret, seed, origin, issued, req>>
    /\ UNCHANGED admin

\* a request is accepted while the bound allows and is handed to the first
\* idle worker
Accept(p) ==
    /\ pc[p] = "idle"
    /\ \A q \in Procs : q < p => pc[q] # "idle"
    /\ calls < MaxCalls
    /\ calls' = calls + 1
    /\ UNCHANGED admin

\* the configurations stored before a step whose counter the step changed
Changed(store, store2) ==
    {k \in Keys : Exists(store[k]) /\
        (~Exists(store2[k]) \/ store2[k].next_number # store[k].next_number)}

\* a handler that goes on in a later step keeps the instance it loaded and
\* what it needs of its request
BeginWith(p, state, loaded, request) ==
    /\ Accept(p)
    /\ pc' = [pc EXCEPT ![p] = state]
    /\ inst' = [inst EXCEPT ![p] = loaded]
    /\ req' = [req EXCEPT ![p] = request]

Begin(p, state, loaded) == BeginWith(p, state, loaded, NoRequest)

Finish(p, response) ==
    /\ pc' = [pc EXCEPT ![p] = "idle"]
    /\ inst' = [inst EXCEPT ![p] = NoRow]
    /\ req' = [req EXCEPT ![p] = NoRequest]
    /\ ret' = [ret EXCEPT ![p] = response]
    /\ UNCHANGED admin

(***************************************************************************)
(* generateNext: a caller loads the instance of a stored configuration and *)
(* calls get_next_number on it.  The method reads no row itself and takes  *)
(* no lock and no transaction: it works on the columns as they were loaded *)
(* and writes them back with save().                                       *)
(***************************************************************************)
GenLoad(p, k) ==
    /\ Exists(db[k])
    /\ Begin(p, "gen", db[k])
    /\ UNCHANGED <<now, db, nextId, ret, seed, origin, issued>>

GenSave(p) ==
    /\ pc[p] = "gen"
    /\ LET self == inst[p]
           k == KeyOf(self)
           r == get_next_number(self, now)
           saved == IF r.ok THEN SaveAll(db, r.self, now)
                    ELSE [ok |-> FALSE, store |-> db]
           done == r.ok /\ saved.ok
       IN  /\ db' = saved.store
           /\ seed' = IF done /\ ResetDue(self, now)
                      THEN [seed EXCEPT ![k] = 1] ELSE seed
           /\ origin' = IF done /\ ResetDue(self, now)
                        THEN [origin EXCEPT ![k] = "rollover"] ELSE origin
           /\ issued' = IF ~done THEN issued
                        ELSE IF ResetDue(self, now)
                        THEN [issued EXCEPT ![k] = <<r.raw>>]
                        ELSE [issued EXCEPT ![k] = Append(issued[k], r.raw)]
           /\ Finish(p, [op |-> "gen", ok |-> done,
                         err |-> IF r.ok /\ ~saved.ok THEN "IntegrityError" ELSE r.err,
                         key |-> k, raw |-> r.raw, number |-> r.number,
                         loaded |-> self, before |-> db[k], after |-> saved.store[k],
                         prior |-> [origin |-> origin[k], seed |-> seed[k],
                                    issued |-> issued[k]],
                         at |-> now])
    /\ UNCHANGED <<now, nextId, calls>>

(***************************************************************************)
(* PATCH document_numbering/<id>/increment/                                *)
(***************************************************************************)
IncLoad(p, tenant, id) ==
    /\ Exists(GetById(db, id, tenant))
    /\ BeginWith(p, "inc", GetById(db, id, tenant), [tenant |-> tenant])
    /\ UNCHANGED <<now, db, nextId, ret, seed, origin, issued>>

IncNotFound(p, tenant, id) ==
    /\ ~Exists(GetById(db, id, tenant))
    /\ Accept(p)
    /\ ret' = [ret EXCEPT ![p] = [op |-> "inc", status |-> 404,
                                     tenant_id |-> tenant, id |-> id, at |-> now]]
    /\ UNCHANGED <<now, db, nextId, pc, inst, seed, origin, issued, req>>

IncSave(p) ==
    /\ pc[p] = "inc"
    /\ LET self == inst[p]
           k == KeyOf(self)
           r == increment_counter(self)
           saved == SaveCounter(db, r.self, now)
       IN  /\ db' = saved.store
           /\ issued' = IF saved.ok
                        THEN [issued EXCEPT ![k] = Append(issued[k], r.old)]
                        ELSE issued
           /\ Finish(p, [op |-> "inc", status |-> IF saved.ok THEN 200 ELSE 500,
                         key |-> k, old_counter |-> r.old,
                         new_counter |-> r.self.next_number,
                         loaded |-> self, before |-> db[k], after |-> saved.store[k],
                         at |-> now])
    /\ UNCHANGED <<now, nextId, calls, seed, origin>>

(***************************************************************************)
(* POST document_numbering/<id>/reset/                                     *)
(***************************************************************************)
ResetLoad(p, tenant, id) ==
    /\ Exists(GetById(db, id, tenant))
    /\ BeginWith(p, "reset", GetById(db, id, tenant), [tenant |-> tenant])
    /\ UNCHANGED <<now, db, nextId, ret, seed, origin, issued>>

ResetNotFound(p, tenant, id) ==
    /\ ~Exists(GetById(db, id, tenant))
    /\ Accept(p)
    /\ ret' = [ret EXCEPT ![p] = [op |-> "reset", status |-> 404,
                                     tenant_id |-> tenant, id |-> id, at |-> now]]
    /\ UNCHANGED <<now, db, nextId, pc, inst, seed, origin, issued, req>>

\* the rest of the handler for the body value v of new_value
ResetApply(p, v) ==
    LET self == inst[p]
        k == KeyOf(self)
        new_value == DataGetNewValue(v)
        rejected == NewValueRejected(new_value)
        saved == IF rejected THEN [ok |-> TRUE, store |-> db]
                 ELSE SaveCounter(db, reset_counter(self, new_value.val), now)
        done == ~rejected /\ saved.ok
    IN  /\ db' = saved.store
        /\ seed' = IF done THEN [seed EXCEPT ![k] = new_value.val] ELSE seed
        /\ origin' = IF done THEN [origin EXCEPT ![k] = "reset"] ELSE origin
        /\ issued' = IF done THEN [issued EXCEPT ![k] = <<>>] ELSE issued
        /\ Finish(p, [op |-> "reset",
                      status |-> IF rejected THEN 400
                                 ELSE IF saved.ok THEN 200 ELSE 500,
                      key |-> k, new_value |-> v,
                      loaded |-> self, before |-> db[k], after |-> saved.store[k],
                      at |-> now])

ResetSave(p) ==
    /\ pc[p] = "reset"
    /\ \E v \in NewValues : ResetApply(p, v)
    /\ UNCHANGED <<now, nextId, calls>>

(***************************************************************************)
(* GET document_numbering/<document_type>/                                 *)
(***************************************************************************)
\* the preview entry of the response body; an exception becomes a 500
PreviewStatus(self, success) ==
    IF preview_next_number(self, now).number.ok THEN success ELSE 500

GetConfig(p, k) ==
    /\ Exists(db[k])
    /\ Accept(p)
    /\ LET r == preview_next_number(db[k], now)
       IN  /\ db' = Persist(db, r.self, r.saves, now)
           /\ ret' = [ret EXCEPT ![p] =
                        [op |-> "get", status |-> PreviewStatus(db[k], 200),
                         key |-> k, next_number |-> db[k].next_number,
                         loaded |-> db[k], missed |-> FALSE,
                         preview |-> r.number,
                         changed |-> Changed(db, db'), at |-> now]]
    /\ UNCHANGED <<now, nextId, pc, inst, seed, origin, issued, req>>

\* the lookup raised DoesNotExist: the handler goes on to create the defaults
GetMiss(p, k) ==
    /\ ~Exists(db[k])
    /\ Begin(p, "get", [id |-> 0, tenant |-> k[1], document_type |-> k[2]])
    /\ UNCHANGED <<now, db, nextId, ret, seed, origin, issued>>

GetCreate(p) ==
    /\ pc[p] = "get"
    /\ LET k == KeyOf(inst[p])
           row == MakeRow(nextId, k[1], k[2], DefaultConfig(k[2]), now)
           created == ~Exists(db[k])
           r == preview_next_number(row, now)
       IN  /\ db' = IF created
                    THEN Persist([db EXCEPT ![k] = row], r.self, r.saves, now)
                    ELSE db
           /\ nextId' = IF created THEN nextId + 1 ELSE nextId
           /\ seed' = IF created THEN [seed EXCEPT ![k] = row.next_number] ELSE seed
           /\ origin' = IF created THEN [origin EXCEPT ![k] = "create"] ELSE origin
           /\ issued' = IF created THEN [issued EXCEPT ![k] = <<>>] ELSE issued
           /\ Finish(p, [op |-> "get",
                         status |-> IF created THEN PreviewStatus(row, 201) ELSE 500,
                         key |-> k, next_number |-> row.next_number,
                         loaded |-> row, missed |-> TRUE,
                         preview |-> IF created THEN r.number
                                     ELSE Raise("IntegrityError"),
                         changed |-> Changed(db, db'), at |-> now])
    /\ UNCHANGED <<now, calls>>

(***************************************************************************)
(* POST preview-numbering/: an unsaved instance built from the body        *)
(***************************************************************************)
PreviewAdhoc(p, cfg) ==
    /\ Accept(p)
    /\ LET temp_numbering == MakeRow(0, "", cfg.document_type, cfg, now)
           r == preview_next_number(temp_numbering, now)
       IN  /\ db' = Persist(db, r.self, r.saves, now)
           /\ ret' = [ret EXCEPT ![p] =
                        [op |-> "preview",
                         status |-> IF r.number.ok THEN 200 ELSE 400,
                         config |-> cfg, preview |-> r.number,
                         changed |-> Changed(db, db'), at |-> now]]
    /\ UNCHANGED <<now, nextId, pc, inst, seed, origin, issued, req>>

(***************************************************************************)
(* POST document_numbering/: create the configuration of a document type   *)
(* or update the stored one through TenantDocumentNumberingSerializer      *)
(***************************************************************************)
\* the choices of the document_type column
DOCUMENT_TYPES == {"invoice", "quote", "order", "delivery", "credit_note"}

\* the column defaults of the model
ModelDefaults ==
    ConfigFields(<<>>, <<>>, 1, 3, TRUE, FALSE, FALSE, T_dash, <<>>, TRUE, FALSE)

\* the configuration columns a request body carries besides document_type;
\* the serializer puts no bound on next_number
UpsertFields ==
    { [next_number |-> 3], [next_number |-> 0], [prefix |-> T_DEV] }

\* setattr(instance, attr, value) for every validated field
SetFields(self, fields) ==
    [f \in DOMAIN self |-> IF f \in DOMAIN fields THEN fields[f] ELSE self[f]]

\* filter(tenant=tenant, document_type=document_type).first()
UpsertLoad(p, k) ==
    /\ Begin(p, "upsert",
             IF Exists(db[k]) THEN db[k]
             ELSE [id |-> 0, tenant |-> k[1], document_type |-> k[2]])
    /\ UNCHANGED <<now, db, nextId, ret, seed, origin, issued>>

\* the rest of the handler for the body columns `fields`
UpsertApply(p, fields) ==
    LET self == inst[p]
        k == KeyOf(self)
        valid == k[2] \in DOCUMENT_TYPES
        row == IF Exists(self) THEN SetFields(self, fields)
               ELSE SetFields(MakeRow(nextId, k[1], k[2], ModelDefaults, now), fields)
        saved == IF valid THEN SaveAll(db, row, now)
                 ELSE [ok |-> TRUE, store |-> db]
        done == valid /\ saved.ok
        sets == done /\ (~Exists(self) \/ "next_number" \in DOMAIN fields)
    IN  /\ db' = saved.store
        /\ nextId' = IF done /\ ~Exists(self) THEN nextId + 1 ELSE nextId
        /\ seed' = IF sets THEN [seed EXCEPT ![k] = row.next_number] ELSE seed
        /\ origin' = IF sets
                     THEN [origin EXCEPT ![k] =
                             IF Exists(self) THEN "upsert" ELSE "create"]
                     ELSE origin
        /\ issued' = IF sets THEN [issued EXCEPT ![k] = <<>>] ELSE issued
        /\ Finish(p, [op |-> "upsert",
                      status |-> IF ~valid THEN 400
                                 ELSE IF ~saved.ok THEN 500
                                 ELSE IF Exists(self) THEN 200 ELSE 201,
                      key |-> k, fields |-> fields,
                      loaded |-> self, before |-> db[k], after |-> saved.store[k],
                      at |-> now])

UpsertSave(p) ==
    /\ pc[p] = "upsert"
    /\ \E fields \in UpsertFields : UpsertApply(p, fields)
    /\ UNCHANGED <<now, calls>>

(***************************************************************************)
(* PUT/PATCH document_numbering/ with a list of one item: get_or_create    *)
(* stores the configuration of the type when there is none, and the        *)
(* serializer then updates the row with the columns of the item.  The      *)
(* handler answers 200 whether or not the item was valid.                  *)
(***************************************************************************)
\* get_or_create(tenant=tenant, document_type=document_type, defaults={...})
GetOrCreate(store, id, k, fields, at) ==
    IF Exists(store[k]) THEN store[k]
    ELSE SetFields(MakeRow(id, k[1], k[2], ModelDefaults, at),
                   [prefix |-> IF "prefix" \in DOMAIN fields
                               THEN fields.prefix ELSE T_DOC])

PutLoad(p, k, fields) ==
    /\ BeginWith(p, "put", GetOrCreate(db, nextId, k, fields, now),
                 [tenant |-> k[1], fields |-> fields])
    /\ db' = [db EXCEPT ![k] = GetOrCreate(db, nextId, k, fields, now)]
    /\ nextId' = IF Exists(db[k]) THEN nextId ELSE nextId + 1
    /\ seed' = IF Exists(db[k]) THEN seed ELSE [seed EXCEPT ![k] = 1]
    /\ origin' = IF Exists(db[k]) THEN origin ELSE [origin EXCEPT ![k] = "create"]
    /\ issued' = IF Exists(db[k]) THEN issued ELSE [issued EXCEPT ![k] = <<>>]
    /\ UNCHANGED <<now, ret>>

PutSave(p) ==
    /\ pc[p] = "put"
    /\ LET self == inst[p]
           k == KeyOf(self)
           fields == req[p].fields
           valid == k[2] \in DOCUMENT_TYPES
           saved == IF valid THEN SaveAll(db, SetFields(self, fields), now)
                    ELSE [ok |-> TRUE, store |-> db]
           done == valid /\ saved.ok
           sets == done /\ "next_number" \in DOMAIN fields
       IN  /\ db' = saved.store
           /\ seed' = IF sets THEN [seed EXCEPT ![k] = fields.next_number] ELSE seed
           /\ origin' = IF sets THEN [origin EXCEPT ![k] = "upsert"] ELSE origin
           /\ issued' = IF sets THEN [issued EXCEPT ![k] = <<>>] ELSE issued
           /\ Finish(p, [op |-> "put", status |-> IF saved.ok THEN 200 ELSE 500,
                         key |-> k, fields |-> fields,
                         updated |-> IF done THEN 1 ELSE 0,
                         loaded |-> self, before |-> db[k], after |-> saved.store[k],
                         at |-> now])
    /\ UNCHANGED <<now, nextId, calls>>

(***************************************************************************)
(* PUT/PATCH current_tenant_info/ with a document_numbering list: the      *)
(* configurations of the tenant are deleted and one row is created per     *)
(* item of the list.  The statements run outside any transaction, so each  *)
(* one is committed on its own.                                            *)
(***************************************************************************)
\* an item of the list: the document type and the columns it carries
Item(document_type, fields) ==
    [document_type |-> document_type, fields |-> fields]

\* the lists of the requests: an empty list, one invoice configuration that
\* carries its counter, one that does not, a list for another type only, a
\* list for a type that is no choice of the column, and a list that names a
\* type twice
NumberingLists ==
    { <<>>,
      <<Item("invoice", [next_number |-> 3])>>,
      <<Item("invoice", [prefix |-> T_FAC])>>,
      <<Item("quote", [next_number |-> 0])>>,
      <<Item("contract", [prefix |-> T_DOC])>>,
      <<Item("invoice", [prefix |-> T_FAC]), Item("invoice", [next_number |-> 3])>> }

\* filter(tenant=tenant).delete()
DeleteOf(store, tenant) ==
    [k \in Keys |-> IF k[1] = tenant THEN NoRow ELSE store[k]]

\* TenantDocumentNumbering.objects.create(tenant=tenant, ...) for one item:
\* the columns the item lacks take the defaults of the data.get calls
CreateOf(store, id, tenant, item, at) ==
    LET k == <<tenant, item.document_type>>
        row == SetFields(MakeRow(id, tenant, item.document_type, ModelDefaults, at),
                         item.fields)
    IN  IF Exists(store[k]) THEN [ok |-> FALSE, store |-> store]
        ELSE [ok |-> TRUE, store |-> [store EXCEPT ![k] = row]]

\* the configurations of a tenant, by document type
RowsOf(store, tenant) == [dt \in DocTypes |-> store[<<tenant, dt>>]]

\* the response once the handler is through or a create has raised, with the
\* configurations of the tenant when the request arrived and when it answers
BulkResponse(tenant, list, status, before, after) ==
    [op |-> "bulk", status |-> status, tenant |-> tenant, list |-> list,
     before |-> before, after |-> after, at |-> now]

BulkDelete(p, tenant, list) ==
    /\ Accept(p)
    /\ db' = DeleteOf(db, tenant)
    /\ seed' = [k \in Keys |-> IF k[1] = tenant THEN 0 ELSE seed[k]]
    /\ origin' = [k \in Keys |->
                    IF k[1] = tenant /\ Exists(db[k]) THEN "deleted" ELSE origin[k]]
    /\ issued' = [k \in Keys |-> IF k[1] = tenant THEN <<>> ELSE issued[k]]
    /\ IF list = <<>>
       THEN /\ ret' = [ret EXCEPT ![p] =
                         BulkResponse(tenant, list, 200, RowsOf(db, tenant),
                                      RowsOf(db', tenant))]
            /\ UNCHANGED <<pc, inst>>
       ELSE /\ pc' = [pc EXCEPT ![p] = "bulk"]
            /\ inst' = [inst EXCEPT ![p] =
                          [id |-> 0, tenant |-> tenant, list |-> list, todo |-> list,
                           before |-> RowsOf(db, tenant)]]
            /\ UNCHANGED ret
    /\ UNCHANGED <<now, nextId, req>>

\* one turn of the creation loop; the handler answers after the last item,
\* or with a server error when the create raises IntegrityError
BulkCreate(p) ==
    /\ pc[p] = "bulk"
    /\ LET tenant == inst[p].tenant
           item == Head(inst[p].todo)
           k == <<tenant, item.document_type>>
           created == CreateOf(db, nextId, tenant, item, now)
       IN  /\ db' = created.store
           /\ nextId' = IF created.ok THEN nextId + 1 ELSE nextId
           /\ seed' = IF created.ok
                      THEN [seed EXCEPT ![k] = created.store[k].next_number]
                      ELSE seed
           /\ origin' = IF created.ok THEN [origin EXCEPT ![k] = "create"] ELSE origin
           /\ issued' = IF created.ok THEN [issued EXCEPT ![k] = <<>>] ELSE issued
           /\ IF created.ok /\ Tail(inst[p].todo) # <<>>
              THEN /\ inst' = [inst EXCEPT ![p].todo = Tail(inst[p].todo)]
                   /\ UNCHANGED <<pc, ret, req>>
                   /\ UNCHANGED admin
              ELSE Finish(p, BulkResponse(tenant, inst[p].list,
                                          IF created.ok THEN 200 ELSE 500,
                                          inst[p].before,
                                          RowsOf(created.store, tenant)))
    /\ UNCHANGED <<now, calls>>

(***************************************************************************)
(* The VAT rates of a tenant.  Each request is taken as a whole: the       *)
(* handlers are followed from their first statement to their response.     *)
(***************************************************************************)
\* the response, with a note whether the tenant had a default rate when the
\* request arrived
VatReply(op, tenant, status, before) ==
    [op |-> op, tenant |-> tenant, status |-> status,
     had_default |-> \E i \in 1..Len(before) : before[i].is_default]

VatPost(t, code, is_default) ==
    LET r == PostRates(vat[t], code, is_default)
    IN  /\ vat' = [vat EXCEPT ![t] = r.rates]
        /\ reply' = VatReply("vat_post", t, r.status, vat[t])
        /\ UNCHANGED <<numbering, invitations>>

\* PUT/PATCH vat_rates/ with a list: the rates created before an error stay
VatReplaceList(t, list) ==
    LET r == CreateRates(<<>>, list)
    IN  /\ vat' = [vat EXCEPT ![t] = r.rates]
        /\ reply' = VatReply("vat_list", t, IF r.ok THEN 200 ELSE 500, vat[t])
        /\ UNCHANGED <<numbering, invitations>>

VatPut(t, i, data) ==
    /\ IF i \in 1..Len(vat[t])
       THEN LET r == PutRates(vat[t], i, data)
            IN  /\ vat' = [vat EXCEPT ![t] = r.rates]
                /\ reply' = VatReply("vat_put", t, r.status, vat[t])
       ELSE /\ reply' = VatReply("vat_put", t, 404, vat[t])
            /\ UNCHANGED vat
    /\ UNCHANGED <<numbering, invitations>>

VatDelete(t, i) ==
    /\ IF i \in 1..Len(vat[t])
       THEN /\ vat' = [vat EXCEPT ![t] = DeleteRates(vat[t], i)]
            /\ reply' = VatReply("vat_delete", t, 204, vat[t])
       ELSE /\ reply' = VatReply("vat_delete", t, 404, vat[t])
            /\ UNCHANGED vat
    /\ UNCHANGED <<numbering, invitations>>

\* PUT/PATCH current_tenant_info/ with a vat_rates list: the replacement
\* runs in transaction.atomic(); an error rolls it back and is only logged
TenantInfoVat(t, list) ==
    LET r == CreateAll(<<>>, list)
    IN  /\ vat' = [vat EXCEPT ![t] = IF r.ok THEN SingleDefault(r.rates) ELSE vat[t]]
        /\ reply' = VatReply("vat_info", t, 200, vat[t])
        /\ UNCHANGED <<numbering, invitations>>

(***************************************************************************)
(* The invitations of a tenant: POST tenants/<id>/invite/ and the two      *)
(* methods of the model that end an invitation                             *)
(***************************************************************************)
\* serializer.is_valid(), then serializer.save(): objects.create raises
\* IntegrityError when a row holds the pair, and the view does not catch it
invite(t, e) ==
    LET k == <<t, e>>
        valid == validate_email(invitations, t, e)
        created == valid /\ ~invitations[k].stored
    IN  /\ invitations' = IF created THEN [invitations EXCEPT ![k] = NewInvitation]
                           ELSE invitations
        /\ reply' = [op |-> "invite", tenant |-> t, email |-> e,
                      status |-> IF ~valid THEN 400
                                 ELSE IF created THEN 201 ELSE 500,
                      before |-> invitations[k],
                      after |-> invitations'[k]]
        /\ UNCHANGED <<numbering, vat>>

accept(t, e) ==
    /\ invitations[<<t, e>>].stored
    /\ invitations' = [invitations EXCEPT ![<<t, e>>].is_accepted = TRUE]
    /\ reply' = [op |-> "accept", tenant |-> t, email |-> e]
    /\ UNCHANGED <<numbering, vat>>

expire(t, e) ==
    /\ invitations[<<t, e>>].stored
    /\ invitations' = [invitations EXCEPT ![<<t, e>>].is_expired = TRUE]
    /\ reply' = [op |-> "expire", tenant |-> t, email |-> e]
    /\ UNCHANGED <<numbering, vat>>

(***************************************************************************)
(* Specifications                                                          *)
(***************************************************************************)
Ids == 1..4

\* the requests on the document numbering; the list update comes with one
\* body here and with all of them in SpecConfig.  The VAT rates and the
\* invitations share no variable with the numbering and have their own
\* specifications below.
Next ==
    \/ Tick
    \/ \E p \in Procs, k \in Keys : GenLoad(p, k)
    \/ \E p \in Procs : GenSave(p)
    \/ \E p \in Procs, t \in Tenants, i \in Ids : IncLoad(p, t, i)
    \/ \E p \in Procs, t \in Tenants, i \in Ids : IncNotFound(p, t, i)
    \/ \E p \in Procs : IncSave(p)
    \/ \E p \in Procs, t \in Tenants, i \in Ids : ResetLoad(p, t, i)
    \/ \E p \in Procs, t \in Tenants, i \in Ids : ResetNotFound(p, t, i)
    \/ \E p \in Procs : ResetSave(p)
    \/ \E p \in Procs, k \in Keys : GetConfig(p, k)
    \/ \E p \in Procs, k \in Keys : GetMiss(p, k)
    \/ \E p \in Procs : GetCreate(p)
    \/ \E p \in Procs, cfg \in PreviewBodies : PreviewAdhoc(p, cfg)
    \/ \E p \in Procs, k \in Keys : UpsertLoad(p, k)
    \/ \E p \in Procs : UpsertSave(p)
    \/ \E p \in Procs, t \in Tenants, list \in NumberingLists : BulkDelete(p, t, list)
    \/ \E p \in Procs : BulkCreate(p)
    \/ \E p \in Procs, k \in Keys : PutLoad(p, k, [next_number |-> 3])
    \/ \E p \in Procs : PutSave(p)

Spec == Init /\ [][Next]_vars

\* only generateNext callers, while the clock may move on
NextGenerate ==
    \/ Tick
    \/ \E p \in Procs, k \in Keys : GenLoad(p, k)
    \/ \E p \in Procs : GenSave(p)

SpecGenerate == Init /\ [][NextGenerate]_vars

\* only callers of the increment endpoint, while the clock may move on
NextIncrement ==
    \/ Tick
    \/ \E p \in Procs, t \in Tenants, i \in Ids : IncLoad(p, t, i)
    \/ \E p \in Procs, t \in Tenants, i \in Ids : IncNotFound(p, t, i)
    \/ \E p \in Procs : IncSave(p)

SpecIncrement == Init /\ [][NextIncrement]_vars

\* only the operations on the counter of stored configurations
NextCounter ==
    \/ Tick
    \/ \E p \in Procs, k \in Keys : GenLoad(p, k)
    \/ \E p \in Procs : GenSave(p)
    \/ \E p \in Procs, t \in Tenants, i \in Ids : IncLoad(p, t, i)
    \/ \E p \in Procs, t \in Tenants, i \in Ids : IncNotFound(p, t, i)
    \/ \E p \in Procs : IncSave(p)
    \/ \E p \in Procs, t \in Tenants, i \in Ids : ResetLoad(p, t, i)
    \/ \E p \in Procs, t \in Tenants, i \in Ids : ResetNotFound(p, t, i)
    \/ \E p \in Procs : ResetSave(p)

SpecCounter == Init /\ [][NextCounter]_vars

\* only previews: the GET endpoint and the preview endpoint
NextPreview ==
    \/ Tick
    \/ \E p \in Procs, k \in Keys : GetConfig(p, k)
    \/ \E p \in Procs, k \in Keys : GetMiss(p, k)
    \/ \E p \in Procs : GetCreate(p)
    \/ \E p \in Procs, cfg \in PreviewBodies : PreviewAdhoc(p, cfg)

SpecPreview == Init /\ [][NextPreview]_vars

\* the configuration endpoints: lazy creation by the GET endpoint, create or
\* update, and the replacement of all configurations of a tenant
NextConfig ==
    \/ Tick
    \/ \E p \in Procs, k \in Keys : GetConfig(p, k)
    \/ \E p \in Procs, k \in Keys : GetMiss(p, k)
    \/ \E p \in Procs : GetCreate(p)
    \/ \E p \in Procs, k \in Keys : UpsertLoad(p, k)
    \/ \E p \in Procs : UpsertSave(p)
    \/ \E p \in Procs, t \in Tenants, list \in NumberingLists : BulkDelete(p, t, list)
    \/ \E p \in Procs : BulkCreate(p)
    \/ \E p \in Procs, k \in Keys, fields \in UpsertFields : PutLoad(p, k, fields)
    \/ \E p \in Procs : PutSave(p)

SpecConfig == Init /\ [][NextConfig]_vars

\* generateNext callers and updates of stored configurations
NextEdit ==
    \/ Tick
    \/ \E p \in Procs, k \in Keys : GenLoad(p, k)
    \/ \E p \in Procs : GenSave(p)
    \/ \E p \in Procs, k \in Keys : UpsertLoad(p, k)
    \/ \E p \in Procs : UpsertSave(p)

SpecEdit == Init /\ [][NextEdit]_vars

\* the requests on the VAT rates
NextVat ==
    \/ \E t \in Tenants, code \in VatCodes, is_default \in BOOLEAN :
          VatPost(t, code, is_default)
    \/ \E t \in Tenants, list \in VatLists : VatReplaceList(t, list)
    \/ \E t \in Tenants, i \in 1..3, data \in VatBodies : VatPut(t, i, data)
    \/ \E t \in Tenants, i \in 1..3 : VatDelete(t, i)
    \/ \E t \in Tenants, list \in VatLists : TenantInfoVat(t, list)

\* the numbering configurations play no part: one of the initial tables is
\* enough
InitAdmin ==
    /\ Init
    /\ db[<<"t1", "invoice">>].next_number = 42

SpecVat == InitAdmin /\ [][NextVat]_vars

\* the invitations
NextInvite ==
    \/ \E t \in Tenants, e \in Emails : invite(t, e)
    \/ \E t \in Tenants, e \in Emails : accept(t, e)
    \/ \E t \in Tenants, e \in Emails : expire(t, e)

SpecInvite == InitAdmin /\ [][NextInvite]_vars

\* only previews of the formats of request bodies, on any date
NextFormat ==
    \/ Tick
    \/ \E p \in Procs, cfg \in FormatBodies : PreviewAdhoc(p, cfg)

SpecFormat == Init /\ [][NextFormat]_vars

(***************************************************************************)
(* Properties                                                              *)
(***************************************************************************)
\* the set of the elements of a sequence
Range(q) == {q[i] : i \in 1..Len(q)}

\* worker p last answered a generateNext that returned a number
Generated(p) == ret[p].op = "gen" /\ ret[p].ok

\* nothing wrote the row between the load and the save of p's last call
Alone(p) == ret[p].before = ret[p].loaded

\* C1: for N generateNext calls on one configuration with no periodic reset
\* due (the clock still shows the date every row was stamped with), the raw
\* numbers returned are pairwise distinct and are exactly n, ..., n+N-1, n
\* being the counter before the calls.
C1_GeneratedNumbersConsecutive ==
    now = StartDate =>
        \A k \in Keys :
            /\ Range(issued[k]) = seed[k]..(seed[k] + Len(issued[k]) - 1)
            /\ Cardinality(Range(issued[k])) = Len(issued[k])

\* C2: when a periodic reset is due, two simultaneous generateNext calls on
\* one configuration (both loaded the same stored row) do not both apply the
\* reset: one returns 1 and the other 2.
C2_ResetAppliedOnce ==
    \A p, q \in Procs :
        (/\ p # q
         /\ Generated(p) /\ Generated(q)
         /\ ret[p].loaded = ret[q].loaded
         /\ ResetDue(ret[p].loaded, ret[p].at)
         /\ ResetDue(ret[q].loaded, ret[q].at))
        => {ret[p].raw, ret[q].raw} = {1, 2}

\* C3: callers of the increment endpoint on one configuration never receive
\* the same old_counter twice.
C3_OldCountersDistinct ==
    \A k \in Keys :
        \A i, j \in 1..Len(issued[k]) : i # j => issued[k][i] # issued[k][j]

\* C4: a single generateNext on a configuration whose stored counter is n,
\* with no reset due, returns the string rendered from n and leaves n + 1
\* stored.
C4_SingleGenerate ==
    \A p \in Procs :
        (Generated(p) /\ Alone(p) /\ ~ResetDue(ret[p].loaded, ret[p].at))
        => /\ ret[p].raw = ret[p].loaded.next_number
           /\ ret[p].number = FormatNumber(ret[p].loaded, ret[p].at).val
           /\ ret[p].after.next_number = ret[p].loaded.next_number + 1

\* a single generateNext of the standard yearly scheme at 42: FAC-2024-042
C4_Witness ==
    \E p \in Procs :
        /\ Generated(p) /\ Alone(p) /\ ~ResetDue(ret[p].loaded, ret[p].at)
        /\ ret[p].loaded.next_number = 42
        /\ ret[p].number = T_FAC \o <<"-", "2", "0", "2", "4", "-", "0", "4", "2">>
        /\ ret[p].after.next_number = 43

\* C5: a single incrementCounter on a configuration whose stored counter is n
\* answers old_counter n and new_counter n + 1, leaves n + 1 stored and
\* changes no other column than the counter and the modification stamp.
C5_SingleIncrement ==
    \A p \in Procs :
        (ret[p].op = "inc" /\ ret[p].status # 404 /\ Alone(p))
        => /\ ret[p].status = 200
           /\ ret[p].old_counter = ret[p].loaded.next_number
           /\ ret[p].new_counter = ret[p].loaded.next_number + 1
           /\ ret[p].after =
                [ret[p].before EXCEPT !.next_number = ret[p].loaded.next_number + 1,
                                      !.updated_at = ret[p].at]

C5_Witness ==
    \E p \in Procs :
        /\ ret[p].op = "inc" /\ ret[p].status = 200 /\ Alone(p)
        /\ ret[p].old_counter = 42
        /\ ret[p].after.next_number = 43
        /\ ret[p].after.prefix = T_FAC

\* C6: a preview, through the GET endpoint on a stored configuration or
\* through the preview endpoint on an unsaved one, changes the stored counter
\* of no configuration, however often it is called.
C6_PreviewKeepsCounters ==
    \A p \in Procs : ret[p].op \in {"get", "preview"} => ret[p].changed = {}

\* the GET endpoint previewed a stored configuration whose periodic reset was
\* due, after an earlier preview
C6_Witness ==
    \E p \in Procs :
        /\ ret[p].op = "get" /\ ret[p].status = 200
        /\ ResetDue(db[ret[p].key], ret[p].at)
        /\ db[ret[p].key].next_number = 42
        /\ calls >= 2

\* C7: generateNext on a configuration with reset_yearly, stamped in year Y,
\* called in another year, renders from 1 and stores 2.
C7_YearlyRollover ==
    \A p \in Procs :
        (/\ Generated(p)
         /\ ret[p].loaded.reset_yearly
         /\ ret[p].loaded.updated_at.year # ret[p].at.year)
        => /\ ret[p].raw = 1
           /\ ret[p].number =
                FormatNumber([ret[p].loaded EXCEPT !.next_number = 1], ret[p].at).val
           /\ ret[p].after.next_number = 2

\* the counter stood at 42 in year Y and generateNext ran in year Y + 1
C7_Witness ==
    \E p \in Procs :
        /\ Generated(p) /\ Alone(p)
        /\ ret[p].loaded.reset_yearly
        /\ ret[p].loaded.next_number = 42
        /\ ret[p].at.year = ret[p].loaded.updated_at.year + 1
        /\ ret[p].number = T_FAC \o <<"-", "2", "0", "2", "5", "-", "0", "0", "1">>
        /\ ret[p].after.next_number = 2

\* a reset request that was answered 200 left the value it carried stored
ResetStoresValue ==
    \A p \in Procs :
        (ret[p].op = "reset" /\ ret[p].status = 200)
        => /\ DataGetNewValue(ret[p].new_value).val >= 1
           /\ ret[p].after.next_number = DataGetNewValue(ret[p].new_value).val

\* p's last call was a generateNext that found the counter as a resetCounter
\* had left it: nothing was handed out and nothing was written since
FirstAfterReset(p) ==
    /\ Generated(p) /\ Alone(p)
    /\ ret[p].prior.origin = "reset"
    /\ ret[p].prior.issued = <<>>

\* C8 as stated: after resetCounter(v), v >= 1, the stored counter is v and
\* the next generateNext returns the number rendered from v.
C8_Original ==
    /\ ResetStoresValue
    /\ \A p \in Procs :
          FirstAfterReset(p)
          => /\ ret[p].raw = ret[p].prior.seed
             /\ ret[p].number = FormatNumber(ret[p].loaded, ret[p].at).val

\* C8 amended: after resetCounter(v), v >= 1, the stored counter is v; the
\* next generateNext returns the number rendered from v when no periodic
\* reset is due at that call, and the number rendered from 1 when one is.
C8_ResetThenGenerate ==
    /\ ResetStoresValue
    /\ \A p \in Procs :
          FirstAfterReset(p)
          => /\ ret[p].loaded.next_number = ret[p].prior.seed
             /\ ret[p].raw =
                  IF ResetDue(ret[p].loaded, ret[p].at) THEN 1 ELSE ret[p].prior.seed
             /\ ret[p].number =
                  FormatNumber([ret[p].loaded EXCEPT !.next_number = ret[p].raw],
                               ret[p].at).val

\* resetCounter(5) and then generateNext in the same period: FAC-2024-005
C8_Witness ==
    \E p \in Procs :
        /\ FirstAfterReset(p)
        /\ ~ResetDue(ret[p].loaded, ret[p].at)
        /\ ret[p].prior.seed = 5
        /\ ret[p].number = T_FAC \o <<"-", "2", "0", "2", "4", "-", "0", "0", "5">>

\* the body carries no new_value, or a JSON integer >= 1
IsIntegerAtLeastOne(v) == v.type = "absent" \/ (v.type = "int" /\ v.val >= 1)

\* C9: a reset request whose new_value is below 1 or is no integer is
\* answered with a validation error and leaves the stored counter and stamp
\* as they were.
C9_InvalidResetRejected ==
    \A p \in Procs :
        (/\ ret[p].op = "reset"
         /\ ret[p].status # 404
         /\ ~IsIntegerAtLeastOne(ret[p].new_value))
        => /\ ret[p].status = 400
           /\ ret[p].after = ret[p].before

\* the template of the configuration does not render
Malformed(self, at) ==
    self.custom_format # <<>> /\ ~RenderTemplate(self, at).ok

\* C10: generateNext on a configuration whose custom_format is malformed
\* does not fail: it returns the standard-format number of the same
\* configuration, counter and date, and advances the stored counter by one.
C10_MalformedFallsBack ==
    \A p \in Procs :
        (ret[p].op = "gen" /\ Alone(p) /\ Malformed(ret[p].loaded, ret[p].at))
        => /\ ret[p].ok
           /\ ret[p].number =
                generate_standard_format(
                    check_and_reset_counter(ret[p].loaded, ret[p].at), ret[p].at).val
           /\ ret[p].after.next_number = ret[p].raw + 1

\* C11: a preview of a configuration whose custom_format is malformed, by
\* the preview endpoint on the configuration of the request body or by the
\* GET endpoint on a stored configuration, surfaces a format error to the
\* caller and returns no formatted number.
C11_PreviewSurfacesFormatError ==
    \A p \in Procs :
        /\ (ret[p].op = "preview" /\ Malformed(ret[p].config, ret[p].at))
           => (ret[p].status = 400 /\ ~ret[p].preview.ok)
        /\ (ret[p].op = "get"
               /\ Malformed(ret[p].loaded, ret[p].at))
           => (ret[p].status # 200 /\ ~ret[p].preview.ok)

\* C12: once a configuration has existed for a (tenant, document type) pair
\* (the pair was accessed by a read, a create or a generation), a row for
\* the pair is stored in every later state; the table holds at most one row
\* per pair by its key.  No tenant is deleted in this model.
C12_OneConfigPerPair ==
    \A k \in Keys : origin[k] # "none" => Exists(db[k])

\* C13: every stored configuration has next_number >= 1.
C13_CounterAtLeastOne ==
    \A k \in Keys : Exists(db[k]) => db[k].next_number >= 1

\* a decimal number of at least `width` digits, filled with zeros on the left
Padded(n, width) == Zeros(width - Len(NatStr(n))) \o NatStr(n)

\* two texts with the separator between them when neither is empty
Glue(a, sep, b) ==
    IF a = <<>> THEN b ELSE IF b = <<>> THEN a ELSE a \o sep \o b

\* the date component of the standard scheme: year, month, day as included
DateComponent(cfg, at) ==
    Glue(Glue(IF cfg.include_year THEN NatStr(at.year) ELSE <<>>,
              cfg.separator,
              IF cfg.include_month THEN Padded(at.month, 2) ELSE <<>>),
         cfg.separator,
         IF cfg.include_day THEN Padded(at.day, 2) ELSE <<>>)

\* prefix, date component, padded number and suffix, in this order
StandardNumber(cfg, at) ==
    Glue(Glue(Glue(cfg.prefix, cfg.separator, DateComponent(cfg, at)),
              cfg.separator,
              Padded(cfg.next_number, cfg.padding)),
         cfg.separator, cfg.suffix)

\* the request previewed prefix FAC, year only, separator "-", padding 3,
\* number 7 in 2024
StandardExample(p) ==
    /\ ret[p].op = "preview"
    /\ ret[p].config.custom_format = <<>>
    /\ ret[p].config.prefix = T_FAC /\ ret[p].config.suffix = <<>>
    /\ ret[p].config.include_year
    /\ ~ret[p].config.include_month /\ ~ret[p].config.include_day
    /\ ret[p].config.separator = T_dash
    /\ ret[p].config.padding = 3 /\ ret[p].config.next_number = 7
    /\ ret[p].at.year = 2024

\* C14: in standard mode the formatted number is the join by the separator
\* of the prefix (if set), the date component (year, month, day as included,
\* joined by the separator), the number zero-padded to padding digits and
\* the suffix (if set); the example of the claim gives FAC-2024-007.
C14_StandardFormat ==
    \A p \in Procs :
        /\ (ret[p].op = "preview" /\ ret[p].config.custom_format = <<>>)
           => /\ ret[p].status = 200
              /\ ret[p].preview.val = StandardNumber(ret[p].config, ret[p].at)
        /\ StandardExample(p)
           => ret[p].preview.val =
                <<"F", "A", "C", "-", "2", "0", "2", "4", "-", "0", "0", "7">>

C14_Witness ==
    \E p \in Procs :
        /\ StandardExample(p) /\ ret[p].status = 200
        /\ ret[p].preview.val = StandardNumber(ret[p].config, ret[p].at)

\* the request previewed the template {prefix}/{year}{month}/{number} with
\* prefix DEV, padding 4 and number 12 on 2024-07-23
CustomExample(p) ==
    /\ ret[p].op = "preview"
    /\ ret[p].config.custom_format = T_wellformed
    /\ ret[p].config.prefix = T_DEV
    /\ ret[p].config.padding = 4 /\ ret[p].config.next_number = 12
    /\ ret[p].at = Date(2024, 7, 23)

\* C15: with a well-formed custom_format the formatted number is the
\* template with prefix, 4-digit year, 2-digit month and day, the number
\* zero-padded to padding digits and suffix substituted, whatever the
\* columns of the standard scheme are; the example of the claim gives
\* DEV/202407/0012.
C15_CustomFormat ==
    \A p \in Procs :
        LET cfg == ret[p].config
            at == ret[p].at
            year == NatStr(at.year)
            month == Padded(at.month, 2)
            day == Padded(at.day, 2)
            number == Padded(cfg.next_number, cfg.padding)
        IN  /\ (ret[p].op = "preview" /\ cfg.custom_format = T_wellformed)
               => /\ ret[p].status = 200
                  /\ Len(year) = 4
                  /\ ret[p].preview.val =
                        cfg.prefix \o <<"/">> \o year \o month \o <<"/">> \o number
            /\ (ret[p].op = "preview" /\ cfg.custom_format = T_every)
               => /\ ret[p].status = 200
                  /\ ret[p].preview.val =
                        number \o cfg.suffix \o <<".">> \o day \o <<".">> \o month
                        \o <<".">> \o year \o <<".">> \o cfg.prefix
            /\ CustomExample(p)
               => ret[p].preview.val =
                    <<"D", "E", "V", "/", "2", "0", "2", "4", "0", "7", "/",
                      "0", "0", "1", "2">>

C15_Witness ==
    \E p \in Procs :
        /\ CustomExample(p) /\ ret[p].status = 200
        /\ ret[p].config.include_year /\ ret[p].config.separator = T_dash
        /\ ret[p].preview.val # StandardNumber(ret[p].config, ret[p].at)

\* the reset condition of the claim for a configuration on a date
PolicyDue(cfg, at) ==
    \/ cfg.reset_yearly /\ at.year # cfg.updated_at.year
    \/ /\ cfg.reset_monthly
       /\ (at.year # cfg.updated_at.year \/ at.month # cfg.updated_at.month)

\* C16: a generation renders from 1 (and stores 2) exactly when the
\* configuration resets yearly and the year differs from the year of
\* updated_at, or resets monthly and the year or the month differs; in every
\* other case it renders from the stored next_number.  A monthly
\* configuration therefore resets one year later in the same month.
C16_ResetPolicy ==
    \A p \in Procs :
        (Generated(p) /\ Alone(p))
        => IF PolicyDue(ret[p].loaded, ret[p].at)
           THEN ret[p].raw = 1 /\ ret[p].after.next_number = 2
           ELSE /\ ret[p].raw = ret[p].loaded.next_number
                /\ ret[p].after.next_number = ret[p].loaded.next_number + 1

C16_Witness ==
    \E p \in Procs :
        /\ Generated(p) /\ Alone(p)
        /\ ret[p].loaded.reset_monthly /\ ~ret[p].loaded.reset_yearly
        /\ ret[p].loaded.updated_at = Date(2024, 7, 23)
        /\ ret[p].at = Date(2025, 7, 23)
        /\ ret[p].loaded.next_number = 9
        /\ ret[p].raw = 1

\* C17: an increment that runs when a periodic reset is due applies the
\* reset first: it answers previous value 1 and stores next_number = 2, so
\* that later generations of the period go on from 2 and not from the
\* counter of the previous period.
C17_IncrementAppliesReset ==
    \A p \in Procs :
        (/\ ret[p].op = "inc" /\ ret[p].status = 200 /\ Alone(p)
         /\ PolicyDue(ret[p].loaded, ret[p].at))
        => /\ ret[p].old_counter = 1
           /\ ret[p].new_counter = 2
           /\ ret[p].after.next_number = 2

\* C18: the preview of a stored configuration by the GET endpoint is
\* rendered from 1 when a periodic reset is due on the date of the request,
\* and from the stored next_number otherwise; no stored counter changes.
C18_PreviewEvaluatesReset ==
    \A p \in Procs :
        (ret[p].op = "get" /\ ret[p].status = 200)
        => /\ ret[p].preview.val =
                FormatNumber(IF PolicyDue(ret[p].loaded, ret[p].at)
                             THEN [ret[p].loaded EXCEPT !.next_number = 1]
                             ELSE ret[p].loaded,
                             ret[p].at).val
           /\ ret[p].changed = {}

\* C19: a GET request that found no configuration for its pair gets the
\* configuration (created by itself or by a concurrent request) and no
\* error; the table holds at most one row per pair by its key.
C19_FirstAccessConverges ==
    \A p \in Procs :
        (ret[p].op = "get" /\ ret[p].missed)
        => /\ ret[p].status \in {200, 201}
           /\ Exists(db[ret[p].key])

\* the step completes a reset request, or a generation that found a
\* periodic reset due, on the configuration k
ResetStep(k) ==
    \E p \in Procs :
        /\ pc'[p] = "idle" /\ Exists(inst[p]) /\ KeyOf(inst[p]) = k
        /\ \/ pc[p] = "reset"
           \/ pc[p] = "gen" /\ PolicyDue(inst[p], now)

\* C20: no step lowers the stored next_number of a configuration, except a
\* step of resetCounter or a generation that applies a periodic reset; in
\* particular no create, update or replacement of configurations does.
C20_CounterNeverLowered ==
    [][\A k \in Keys :
          (/\ Exists(db[k]) /\ Exists(db'[k])
           /\ db'[k].next_number < db[k].next_number)
          => ResetStep(k)]_vars

(***************************************************************************)
(* C21: the replacement of all numbering configurations of a tenant is all *)
(* or nothing: a request that fails leaves the configurations of the       *)
(* tenant exactly as they were when it arrived.                            *)
(***************************************************************************)
BulkFailed(p) == ret[p].op = "bulk" /\ ret[p].status # 200

C21_BulkReplaceAllOrNothing ==
    \A p \in Procs : BulkFailed(p) => ret[p].after = ret[p].before

\* a replacement whose list names a type twice has failed on the second
\* create: the stored configurations are gone and the first item is stored
C21_PartialReplace ==
    \E p \in Procs :
        /\ BulkFailed(p)
        /\ calls = 1
        /\ Exists(ret[p].before["invoice"])
        /\ Exists(ret[p].after["invoice"])
        /\ ret[p].after["invoice"].id # ret[p].before["invoice"].id

(***************************************************************************)
(* C22: a configuration is removed only as a cascade of the deletion of    *)
(* its tenant.  No step of the model deletes a tenant, so no step may      *)
(* remove a stored configuration.                                          *)
(***************************************************************************)
C22_RemovedOnlyByCascade ==
    [][\A k \in Keys : Exists(db[k]) => Exists(db'[k])]_vars

\* the replacement has removed the invoice configuration of a tenant that
\* is still there
C22_RemovedByReplace ==
    \E p \in Procs :
        /\ ret[p].op = "bulk"
        /\ ret[p].status = 200
        /\ Exists(ret[p].before["invoice"])
        /\ ~Exists(ret[p].after["invoice"])
        /\ ~Exists(db[<<ret[p].tenant, "invoice">>])

(***************************************************************************)
(* C23: every path that creates a configuration rejects a document type    *)
(* outside invoice, quote, order, delivery and credit_note, so no stored   *)
(* configuration has another type.                                         *)
(***************************************************************************)
C23_StoredTypesAreChoices ==
    \A k \in Keys : Exists(db[k]) => db[k].document_type \in DOCUMENT_TYPES

\* the paths that have stored a configuration of another type
C23_LazyGetStoresOtherType ==
    \E p \in Procs :
        /\ ret[p].op = "get" /\ ret[p].status = 201
        /\ ret[p].key[2] \notin DOCUMENT_TYPES
        /\ Exists(db[ret[p].key])

C23_PutStoresOtherType ==
    \E p \in Procs :
        /\ ret[p].op = "put" /\ ret[p].status = 200 /\ ret[p].updated = 0
        /\ ret[p].key[2] \notin DOCUMENT_TYPES
        /\ Exists(db[ret[p].key])

C23_ReplaceStoresOtherType ==
    \E p \in Procs :
        /\ ret[p].op = "bulk" /\ ret[p].status = 200
        /\ \E dt \in DocTypes \ DOCUMENT_TYPES : Exists(ret[p].after[dt])

\* the POST endpoint validates the type and stores nothing
C23_PostRejectsOtherType ==
    \A p \in Procs :
        ret[p].op = "upsert" /\ ret[p].key[2] \notin DOCUMENT_TYPES
            => ret[p].status = 400 /\ ret[p].after = ret[p].before

(***************************************************************************)
(* C24: a generation, an increment or a reset on the configuration of one  *)
(* (tenant, document type) leaves every other configuration as it was.     *)
(***************************************************************************)
CounterStep(p) == pc[p] \in {"gen", "inc", "reset"} /\ pc'[p] = "idle"

C24_OtherConfigsUnchanged ==
    [][\A p \in Procs :
          CounterStep(p) =>
              \A k \in Keys \ {KeyOf(inst[p])} : db'[k] = db[k]]_vars

\* one of the three operations has changed its configuration while another
\* tenant holds a configuration of the same type
C24_Witness ==
    \E p \in Procs :
        /\ ret[p].op \in {"gen", "inc", "reset"}
        /\ "after" \in DOMAIN ret[p]
        /\ ret[p].after # ret[p].before
        /\ \E t \in Tenants \ {ret[p].key[1]} : Exists(db[<<t, ret[p].key[2]>>])

(***************************************************************************)
(* C25: an update of a stored configuration that carries no counter has no *)
(* effect on the counter values: on every later date the next generation   *)
(* uses the number it would have used without the update.  For a yearly    *)
(* reset configuration last written in one year and updated in the next,   *)
(* the first generation of the new year still uses 1.                      *)
(***************************************************************************)
EditedOnly(p) ==
    /\ ret[p].op = "upsert"
    /\ ret[p].status = 200
    /\ "next_number" \notin DOMAIN ret[p].fields

\* the number the next generation on the date d uses
NumberUsed(self, d) == get_next_number(self, d).raw

C25_EditKeepsCounterValues ==
    \A p \in Procs :
        EditedOnly(p) =>
            \A d \in Dates :
                ~Earlier(d, ret[p].at) =>
                    NumberUsed(ret[p].after, d) = NumberUsed(ret[p].before, d)

\* the only request of a run has updated the prefix of a yearly reset
\* configuration in the year after its last write: the generation that
\* would have used 1 goes on from the stored counter
C25_EditHidesRollover ==
    \E p \in Procs :
        /\ EditedOnly(p)
        /\ calls = 1
        /\ ret[p].before = ret[p].loaded
        /\ ret[p].before.reset_yearly
        /\ ret[p].before.updated_at.year < ret[p].at.year
        /\ NumberUsed(ret[p].before, ret[p].at) = 1
        /\ NumberUsed(ret[p].after, ret[p].at) = ret[p].before.next_number
        /\ ret[p].before.next_number > 1

(***************************************************************************)
(* C26: an increment or a reset that carries the identifier of tenant A    *)
(* and the id of a configuration of another tenant finds nothing, answers  *)
(* not-found and changes no configuration; a request of tenant A changes   *)
(* only configurations of A.                                               *)
(***************************************************************************)
\* the tenant that owns the configuration with the primary key, if any
OwnerOf(store, id) ==
    IF \E k \in Keys : Exists(store[k]) /\ store[k].id = id
    THEN (CHOOSE k \in Keys : Exists(store[k]) /\ store[k].id = id)[1]
    ELSE ""

\* the lookup of the two handlers finds no configuration of another tenant
LookupIsolated ==
    \A t \in Tenants, i \in Ids :
        OwnerOf(db, i) \notin {"", t} => ~Exists(GetById(db, i, t))

\* the handler on p has loaded the configuration of its request
Loads(p) == pc[p] = "idle" /\ pc'[p] \in {"inc", "reset"}

\* the handler on p answers
Answers(p) == pc[p] \in {"inc", "reset"} /\ pc'[p] = "idle"

\* the handler on p answers not-found
Refuses(p) ==
    /\ pc[p] = "idle" /\ pc'[p] = "idle" /\ calls' = calls + 1
    /\ \A q \in Procs : q < p => pc[q] # "idle"

C26_TenantIsolation ==
    [][/\ LookupIsolated
       /\ \A p \in Procs :
            /\ Loads(p) => inst'[p].tenant = req'[p].tenant /\ db' = db
            /\ Answers(p) =>
                   \A k \in Keys : k[1] # req[p].tenant => db'[k] = db[k]
            /\ Refuses(p) => ret'[p].status = 404 /\ db' = db]_vars

\* a request of one tenant for the configuration of the other was answered
\* not-found, and the configuration is as it was created
C26_Witness ==
    \E p \in Procs :
        /\ ret[p].op \in {"inc", "reset"}
        /\ ret[p].status = 404
        /\ OwnerOf(db, ret[p].id) \notin {"", ret[p].tenant_id}
        /\ \E k \in Keys : db[k].id = ret[p].id /\ origin[k] = "create"
                              /\ db[k].next_number = seed[k]

(***************************************************************************)
(* C27: a generation changes only next_number and updated_at of the stored *)
(* configuration: every other column is after the generation what it was  *)
(* in the row just before the save, so a change that an update committed   *)
(* between the load and the save of the generation is still there.         *)
(***************************************************************************)
OtherColumns(self) == DOMAIN self \ {"next_number", "updated_at"}

C27_GenerateWritesCounterOnly ==
    \A p \in Procs :
        Generated(p) =>
            \A f \in OtherColumns(ret[p].before) :
                ret[p].after[f] = ret[p].before[f]

\* an update stored the prefix DEV between the load and the save of a
\* generation, and the generation has put the prefix it loaded back
C27_EditOverwritten ==
    \E p, q \in Procs :
        /\ Generated(p)
        /\ ret[q].op = "upsert" /\ ret[q].status = 200
        /\ ret[q].key = ret[p].key
        /\ ret[q].fields = [prefix |-> T_DEV]
        /\ ret[q].before = ret[p].loaded
        /\ ret[p].before = ret[q].after
        /\ ret[p].before.prefix = T_DEV
        /\ ret[p].after.prefix = ret[p].loaded.prefix
        /\ ret[p].loaded.prefix # T_DEV

(***************************************************************************)
(* C28: a reset to v is never lost to a consumption in flight: when one    *)
(* reset and one generation or increment on the same configuration run     *)
(* concurrently and both complete, the stored counter is v (the            *)
(* consumption came first) or v + 1 (the reset came first).                *)
(***************************************************************************)
\* worker p last answered a reset that stored its value
ResetDone(p) == ret[p].op = "reset" /\ ret[p].status = 200

\* worker q last answered a generation or an increment that stored a counter
ConsumeDone(q) ==
    \/ Generated(q)
    \/ ret[q].op = "inc" /\ ret[q].status = 200

\* the two requests of a run were in flight together and both are through:
\* the second worker takes a request only while the first is busy
RanTogether(p, q) ==
    /\ p # q
    /\ calls = 2
    /\ pc[p] = "idle" /\ pc[q] = "idle"
    /\ ret[p].key = ret[q].key

StoredValue(p) == DataGetNewValue(ret[p].new_value).val

C28_ResetNotLost ==
    \A p, q \in Procs :
        ResetDone(p) /\ ConsumeDone(q) /\ RanTogether(p, q) =>
            db[ret[p].key].next_number \in {StoredValue(p), StoredValue(p) + 1}

\* the reset to 5 was saved first and the consumption, which had loaded the
\* counter before it, saved last: the counter is the old value plus one
C28_ResetOverwritten ==
    \E p, q \in Procs :
        /\ ResetDone(p) /\ ConsumeDone(q) /\ RanTogether(p, q)
        /\ now = StartDate
        /\ StoredValue(p) = 5
        /\ ret[q].before.next_number = 5
        /\ ret[q].loaded.next_number > 5
        /\ db[ret[p].key].next_number = ret[q].loaded.next_number + 1

(***************************************************************************)
(* C29: after any sequence of completed requests on the VAT rates of a     *)
(* tenant (creation, update of one rate, replacement of the list,          *)
(* deletion, replacement through the tenant information) at most one rate  *)
(* of the tenant is the default.                                           *)
(***************************************************************************)
Defaults(rates) == {i \in 1..Len(rates) : rates[i].is_default}

C29_AtMostOneDefault ==
    \A t \in Tenants : Cardinality(Defaults(vat[t])) <= 1

\* a rate was created as the default of a tenant that had another default
C29_Witness ==
    /\ reply.op = "vat_post"
    /\ reply.status = 201
    /\ reply.had_default
    /\ Defaults(vat[reply.tenant]) = {Len(vat[reply.tenant])}

(***************************************************************************)
(* C30: an invitation of an address to a tenant is refused with a          *)
(* validation error exactly when an invitation that is neither accepted    *)
(* nor expired is stored for the pair; when the stored invitation of the   *)
(* pair is accepted or expired, the request succeeds and stores a new      *)
(* pending invitation.                                                     *)
(***************************************************************************)
Pending(row) == row.stored /\ ~row.is_accepted /\ ~row.is_expired

C30_InviteRefusedIffPending ==
    reply.op = "invite" =>
        /\ reply.status = 400 <=> Pending(reply.before)
        /\ ~Pending(reply.before) =>
               reply.status = 201 /\ Pending(reply.after)

\* the half that holds: a pending invitation makes the request a 400
C30_PendingRefused ==
    reply.op = "invite" /\ Pending(reply.before)
        => reply.status = 400 /\ reply.after = reply.before

\* the address was invited again after its invitation was accepted: the
\* request failed with a server error and no pending invitation is stored
C30_ReinviteFails ==
    /\ reply.op = "invite"
    /\ reply.before.stored /\ reply.before.is_accepted
    /\ reply.status = 500
    /\ ~Pending(invitations[<<reply.tenant, reply.email>>])

====
